---- MODULE Spec2Model ----
(***************************************************************************)
(* Long-to-wide conversion of NSE derivative bars: the ticker parser, the   *)
(* per-symbol pivot (create_wide_dataframe) of full_analysis.py and of      *)
(* process_to_feather.py, and the per-symbol driver loop of main.           *)
(*                                                                         *)
(* Strings the program inspects character by character (tickers, column     *)
(* names) are sequences of one-character strings.  A missing value (None,   *)
(* NaN, NaT) is the empty sequence <<>>, a present value v is <<v>>.        *)
(***************************************************************************)
EXTENDS Integers, Sequences, FiniteSets, TLC

VARIABLES
    src,            \* the tuple a synthesized ticker was built from (parser runs)
    ticker_str,     \* parse_ticker's argument
    parse_out,      \* parse_ticker's return value, <<>> before the call
    expiry_str,     \* determine_future_bucket's first argument
    reference_date, \* determine_future_bucket's second argument
    bucket_out,     \* determine_future_bucket's return value, <<>> before the call
    df_master,      \* the master table: a sequence of raw rows
    sample_cols,    \* sample_df.columns: the reference column list
    symbols,        \* NIFTY50_SYMBOLS as seen by main's loop
    mpc,            \* main's position
    midx,           \* main: index of the symbol being processed
    success_count,  \* main: success_count
    failed,         \* main: failed
    calls,          \* main: the symbols create_wide_dataframe was called with, in order
    printed,        \* main: the outcome line printed for each call, in order
    symbol,         \* create_wide_dataframe: its symbol argument
    pc,             \* create_wide_dataframe: position
    df_symbol,      \* create_wide_dataframe: the symbol's rows, with Datetime once computed
    df_tickers,     \* create_wide_dataframe: the kept contracts, in discovery order
    unique_times,   \* create_wide_dataframe: the timestamp axis
    columns,        \* result.columns, in frame order
    cells,          \* result's data cells: column name -> timestamp -> value
    meta,           \* result's FileDate/Date/Time cells: timestamp -> record
    ci              \* create_wide_dataframe: index of the contract being processed

vars == <<src, ticker_str, parse_out, expiry_str, reference_date, bucket_out, df_master, sample_cols, symbols, mpc, midx,
          success_count, failed, calls, printed, symbol, pc, df_symbol, df_tickers, unique_times,
          columns, cells, meta, ci>>

classifierVars == <<expiry_str, reference_date, bucket_out>>

parserVars == <<src, ticker_str, parse_out, classifierVars>>
mainVars == <<symbols, mpc, midx, success_count, failed, calls, printed>>
wideVars == <<symbol, pc, df_symbol, df_tickers, unique_times, columns, cells, meta, ci>>

-----------------------------------------------------------------------------
(* Bounds of the model *)

MaxSymLen == 3      \* longest synthesized underlying symbol (parser runs)
MaxStrike == 11     \* largest synthesized strike; strikes start at 8
MaxRows == 3        \* most rows of the master table

-----------------------------------------------------------------------------
(* Characters and strings *)

Upper == {"A","B","C","D","E","F","G","H","I","J","K","L","M",
          "N","O","P","Q","R","S","T","U","V","W","X","Y","Z"}

DigitSeq == <<"0","1","2","3","4","5","6","7","8","9">>

Digit == {DigitSeq[i] : i \in 1..Len(DigitSeq)}

\* Code-point order of the characters that occur in tickers and column names.
AsciiOrder == <<" ", "&", "-", ".", "0","1","2","3","4","5","6","7","8","9", ":",
                "A","B","C","D","E","F","G","H","I","J","K","L","M",
                "N","O","P","Q","R","S","T","U","V","W","X","Y","Z", "_",
                "a","b","c","d","e","f","g","h","i","j","k","l","m",
                "n","o","p","q","r","s","t","u","v","w","x","y","z">>

Ord == [c \in {AsciiOrder[i] : i \in 1..Len(AsciiOrder)} |->
            CHOOSE i \in 1..Len(AsciiOrder) : AsciiOrder[i] = c]

RECURSIVE StrLessFrom(_, _, _)
StrLessFrom(a, b, i) ==
    IF i > Len(b) THEN FALSE
    ELSE IF i > Len(a) THEN TRUE
    ELSE IF a[i] # b[i] THEN Ord[a[i]] < Ord[b[i]]
    ELSE StrLessFrom(a, b, i + 1)

\* Python's str < str: lexicographic by code point, a proper prefix first.
StrLess(a, b) == StrLessFrom(a, b, 1)

StartsWith(s, p) == Len(p) <= Len(s) /\ SubSeq(s, 1, Len(p)) = p

AllIn(s, S) == \A i \in 1..Len(s) : s[i] \in S

Min(S) == CHOOSE x \in S : \A y \in S : x <= y

DigitVal(c) == (CHOOSE i \in 1..Len(DigitSeq) : DigitSeq[i] = c) - 1

\* int(digits), base 10
RECURSIVE DigitsToInt(_)
DigitsToInt(ds) ==
    IF ds = <<>> THEN 0
    ELSE 10 * DigitsToInt(SubSeq(ds, 1, Len(ds) - 1)) + DigitVal(ds[Len(ds)])

\* str(n) for an int n >= 0
RECURSIVE IntToDigits(_)
IntToDigits(n) ==
    IF n < 10 THEN <<DigitSeq[n + 1]>>
    ELSE IntToDigits(n \div 10) \o <<DigitSeq[(n % 10) + 1]>>

-----------------------------------------------------------------------------
(* parse_ticker *)

NFO == <<".", "N", "F", "O">>

StripNFOKeep(t) == t

\* str(ticker_str).replace('.NFO', ''): every occurrence, left to right
RECURSIVE StripNFO(_)
StripNFO(t) ==
    IF Len(t) < Len(NFO) THEN t
    ELSE IF SubSeq(t, 1, Len(NFO)) = NFO THEN StripNFO(SubSeq(t, Len(NFO) + 1, Len(t)))
    ELSE <<Head(t)>> \o StripNFO(Tail(t))

SymbolClassNoHyphen == Upper \cup {"&"}

\* the character class [A-Z&-] of both patterns' symbol group
SymbolClass == Upper \cup {"&", "-"}

RomanSuffixes == {<<"I">>, <<"I","I">>, <<"I","I","I">>}

OptTypes == {<<"C","E">>, <<"P","E">>}

\* ^([A-Z&-]+?)-(I|II|III)$ : the lengths i of group 1 for which the rest matches
FutSplits(t) ==
    {i \in 1..(Len(t) - 2) :
        /\ AllIn(SubSeq(t, 1, i), SymbolClass)
        /\ t[i + 1] = "-"
        /\ SubSeq(t, i + 2, Len(t)) \in RomanSuffixes}

\* \d{2}[A-Z]{3}\d{2}
IsExpiryShape(e) ==
    /\ Len(e) = 7
    /\ e[1] \in Digit /\ e[2] \in Digit
    /\ e[3] \in Upper /\ e[4] \in Upper /\ e[5] \in Upper
    /\ e[6] \in Digit /\ e[7] \in Digit

\* ^([A-Z&-]+?)(\d{2}[A-Z]{3}\d{2})(\d+)(CE|PE)$ : the lengths i of group 1
OptSplits(t) ==
    {i \in 1..(Len(t) - 10) :
        /\ AllIn(SubSeq(t, 1, i), SymbolClass)
        /\ IsExpiryShape(SubSeq(t, i + 1, i + 7))
        /\ AllIn(SubSeq(t, i + 8, Len(t) - 2), Digit)
        /\ SubSeq(t, Len(t) - 1, Len(t)) \in OptTypes}

FutPrefix == <<"F","U","T","_">>

NoMatch == [Symbol |-> <<>>, Expiry |-> <<>>, Strike |-> <<>>, OptType |-> <<>>,
            Instrument |-> "NONE"]

\* The lazy group takes the shortest symbol for which the whole pattern matches.
parse_ticker(t) ==
    LET ticker == StripNFO(t)
        futs == FutSplits(ticker)
        opts == OptSplits(ticker)
    IN  IF futs # {}
        THEN LET i == Min(futs)
             IN [Symbol |-> SubSeq(ticker, 1, i),
                 Expiry |-> FutPrefix \o SubSeq(ticker, i + 2, Len(ticker)),
                 Strike |-> <<>>,
                 OptType |-> <<"F","U","T">>,
                 Instrument |-> "FUTURE"]
        ELSE IF opts # {}
        THEN LET i == Min(opts)
             IN [Symbol |-> SubSeq(ticker, 1, i),
                 Expiry |-> SubSeq(ticker, i + 1, i + 7),
                 Strike |-> <<DigitsToInt(SubSeq(ticker, i + 8, Len(ticker) - 2))>>,
                 OptType |-> SubSeq(ticker, Len(ticker) - 1, Len(ticker)),
                 Instrument |-> "OPTION"]
        ELSE NoMatch

-----------------------------------------------------------------------------
(* determine_future_bucket: the futures bucket classifier *)

NOV == <<"N","O","V">>
DEC == <<"D","E","C">>
JAN == <<"J","A","N">>

\* re.search(r'([A-Z]{3})', expiry_str): the leftmost run of three uppercase
\* letters, <<>> when there is none
MonthMatch(s) ==
    LET starts == {i \in 1..(Len(s) - 2) : AllIn(SubSeq(s, i, i + 2), Upper)}
    IN  IF starts = {} THEN <<>> ELSE <<SubSeq(s, Min(starts), Min(starts) + 2)>>

\* the if/elif chain on month; reference_date is a parameter the body never reads
determine_future_bucket(expiry, ref) ==
    LET month_match == MonthMatch(expiry)
    IN  IF month_match = <<>> THEN FutPrefix \o <<"I">>
        ELSE LET month == month_match[1]
             IN  IF month = NOV THEN FutPrefix \o <<"I">>
                 ELSE IF month = DEC THEN FutPrefix \o <<"I","I">>
                 ELSE IF month = JAN THEN FutPrefix \o <<"I","I","I">>
                 ELSE FutPrefix \o <<"I">>

-----------------------------------------------------------------------------
(* Raw rows, dates and times *)

\* fields_map, in dict order: CSV field -> column suffix
FieldsMap == <<
    [csv |-> "Close",         col |-> <<"C","l","o","s","e">>],
    [csv |-> "High",          col |-> <<"H","i","g","h">>],
    [csv |-> "Low",           col |-> <<"L","o","w">>],
    [csv |-> "Open",          col |-> <<"O","p","e","n">>],
    [csv |-> "Open Interest", col |-> <<"O","p","e","n","_","I","n","t","e","r","e","s","t">>],
    [csv |-> "Volume",        col |-> <<"V","o","l","u","m","e">>] >>

CsvFields == {FieldsMap[i].csv : i \in 1..Len(FieldsMap)}

\* strptime('%d/%m/%Y') on the date strings of the model: day number, or no parse
DateTable == ("31/10/2025" :> 0) @@ ("01/11/2025" :> 1)

\* strptime('%H:%M:%S') on the time strings of the model: second of the day
TimeTable == ("09:15:00" :> 33300) @@ ("9:15:00" :> 33300) @@ ("09:16:00" :> 33360)

\* strftime('%H:%M:%S')
StrfTime(secs) == IF secs = 33300 THEN "09:15:00" ELSE "09:16:00"

\* pd.to_datetime(Date + ' ' + Time, format='%d/%m/%Y %H:%M:%S', errors='coerce')
ParseDatetime(d, t) ==
    IF d \in DOMAIN DateTable /\ t \in DOMAIN TimeTable
    THEN <<DateTable[d] * 86400 + TimeTable[t]>>
    ELSE <<>>

\* A row whose six fields hold b, b+1, ... in fields_map order; all NaN for b = <<>>.
FieldVals(b) ==
    [f \in CsvFields |->
        IF b = <<>> THEN <<>>
        ELSE <<b[1] + (CHOOSE i \in 1..Len(FieldsMap) : FieldsMap[i].csv = f) - 1>>]

Row(t, d, tm, b) == [Ticker |-> t, Date |-> d, Time |-> tm, Vals |-> FieldVals(b)]

RECURSIVE SelectRows(_, _)
SelectRows(rows, keep) ==
    IF rows = <<>> THEN <<>>
    ELSE (IF Head(rows).Ticker \in keep THEN <<Head(rows)>> ELSE <<>>)
         \o SelectRows(Tail(rows), keep)

\* Series.unique(): the distinct tickers in order of first appearance
RECURSIVE UniqueTickers(_, _)
UniqueTickers(rows, seen) ==
    IF rows = <<>> THEN <<>>
    ELSE IF Head(rows).Ticker \in seen THEN UniqueTickers(Tail(rows), seen)
    ELSE <<Head(rows).Ticker>> \o UniqueTickers(Tail(rows), seen \cup {Head(rows).Ticker})

\* sorted(...) of a set of integers
RECURSIVE SortedSeq(_)
SortedSeq(S) == IF S = {} THEN <<>> ELSE <<Min(S)>> \o SortedSeq(S \ {Min(S)})

Range(s) == {s[i] : i \in 1..Len(s)}

-----------------------------------------------------------------------------
(* create_wide_dataframe: grouping *)

\* Ticker.str.contains('^' + re.escape(symbol) + '[\d-]')
Mask(t, sym) ==
    /\ StartsWith(t, sym)
    /\ Len(t) > Len(sym)
    /\ t[Len(sym) + 1] \in Digit \cup {"-"}

KeepAnyParsed(p, sym) == p.Instrument # "NONE"

\* sym == symbol, sym being None for an unresolved ticker
KeepParsed(p, sym) == p.Instrument # "NONE" /\ p.Symbol = sym

RECURSIVE TickerInfo(_, _)
TickerInfo(tickers, sym) ==
    IF tickers = <<>> THEN <<>>
    ELSE LET t == Head(tickers)
             p == parse_ticker(t)
         IN (IF KeepParsed(p, sym)
             THEN <<[Ticker |-> t, Symbol |-> p.Symbol, Expiry |-> p.Expiry,
                     Strike |-> p.Strike, OptType |-> p.OptType,
                     Instrument |-> p.Instrument]>>
             ELSE <<>>) \o TickerInfo(Tail(tickers), sym)

\* pd.DataFrame(ticker_info): a Strike column of ints stays int64; one holding both
\* None and ints is inferred float64, None becoming NaN; one of None only stays object
StrikeDtype(info, s) ==
    LET anyNone == \E i \in 1..Len(info) : info[i].Strike = <<>>
        anyInt == \E i \in 1..Len(info) : info[i].Strike # <<>>
    IN  IF anyNone /\ anyInt
        THEN (IF s = <<>> THEN [kind |-> "nan", v |-> 0] ELSE [kind |-> "float", v |-> s[1]])
        ELSE (IF s = <<>> THEN [kind |-> "none", v |-> 0] ELSE [kind |-> "int", v |-> s[1]])

TickersFrame(info) ==
    [i \in 1..Len(info) |-> [info[i] EXCEPT !.Strike = StrikeDtype(info, info[i].Strike)]]

\* lines 96-126 of full_analysis.py (102-132 of process_to_feather.py)
Group ==
    /\ pc = "start"
    /\ LET sel == SelectRows(df_master, {r.Ticker : r \in {x \in Range(df_master) :
                                                            Mask(x.Ticker, symbol)}})
           info == TickerInfo(UniqueTickers(sel, {}), symbol)
       IN  IF sel = <<>> \/ info = <<>>
           THEN /\ pc' = "return_none"
                /\ UNCHANGED <<df_symbol, df_tickers>>
           ELSE /\ df_tickers' = TickersFrame(info)
                /\ df_symbol' = SelectRows(sel, {info[i].Ticker : i \in 1..Len(info)})
                /\ pc' = "axis"
    /\ UNCHANGED <<parserVars, df_master, sample_cols, mainVars, symbol, unique_times,
                   columns, cells, meta, ci>>

-----------------------------------------------------------------------------
(* create_wide_dataframe: the timestamp axis and the empty result frame *)

ColDatetime == <<"D","a","t","e","t","i","m","e">>
ColFileDate == <<"F","i","l","e","D","a","t","e">>
ColDate == <<"D","a","t","e">>
ColTime == <<"T","i","m","e">>

\* main passes file_date = df_master['Date'].iloc[0]
FileDate == df_master[1].Date

WithDatetime(rows) ==
    [i \in 1..Len(rows) |->
        [Ticker |-> rows[i].Ticker, Date |-> rows[i].Date, Time |-> rows[i].Time,
         Vals |-> rows[i].Vals,
         Datetime |-> ParseDatetime(rows[i].Date, rows[i].Time)]]

RECURSIVE AxisUnsortedFrom(_, _)
AxisUnsortedFrom(rows, seen) ==
    IF rows = <<>> THEN <<>>
    ELSE LET dt == Head(rows).Datetime
         IN IF dt = <<>> \/ dt[1] \in seen THEN AxisUnsortedFrom(Tail(rows), seen)
            ELSE dt \o AxisUnsortedFrom(Tail(rows), seen \cup {dt[1]})

AxisUnsorted(rows) == AxisUnsortedFrom(rows, {})

\* sorted(df_symbol['Datetime'].dropna().unique())
Axis(rows) ==
    SortedSeq({rows[i].Datetime[1] : i \in {j \in 1..Len(rows) : rows[j].Datetime # <<>>}})

MetaCells(axis) ==
    [ts \in Range(axis) |->
        [FileDate |-> DateTable[FileDate], Date |-> DateTable[FileDate],
         Time |-> StrfTime(ts % 86400)]]

\* lines 132-162 of full_analysis.py.  pd.to_datetime(file_date, ...) has no
\* errors='coerce': a file_date that does not parse raises.
BuildAxis ==
    /\ pc = "axis"
    /\ IF FileDate \notin DOMAIN DateTable
       THEN /\ pc' = "raised"
            /\ UNCHANGED <<df_symbol, unique_times, columns, cells, meta, ci>>
       ELSE /\ df_symbol' = WithDatetime(df_symbol)
            /\ unique_times' = Axis(df_symbol')
            /\ columns' = <<ColDatetime, ColFileDate, ColDate, ColTime>>
            /\ meta' = MetaCells(unique_times')
            /\ cells' = <<>>
            /\ ci' = 1
            /\ pc' = "contracts"
    /\ UNCHANGED <<parserVars, df_master, sample_cols, mainVars, symbol, df_tickers>>

-----------------------------------------------------------------------------
(* create_wide_dataframe: column synthesis and cell writes *)

\* f"{strike}": an int prints its digits, an integer-valued float prints them with ".0"
FormatStrike(s) ==
    IF s.kind = "int" THEN IntToDigits(s.v)
    ELSE IF s.kind = "float" THEN IntToDigits(s.v) \o <<".", "0">>
    ELSE IF s.kind = "nan" THEN <<"n","a","n">>
    ELSE <<"N","o","n","e">>

\* f"{int(strike)}"
FormatIntStrike(s) == IntToDigits(s.v)

\* lines 176-182 of full_analysis.py
ColPrefix(contract) ==
    IF contract.Instrument = "FUTURE" THEN contract.Expiry
    ELSE FormatStrike(contract.Strike) \o contract.OptType

\* lines 185-190 of process_to_feather.py
ColPrefixRef(contract) ==
    IF contract.Instrument = "FUTURE" THEN contract.Expiry
    ELSE FormatIntStrike(contract.Strike) \o contract.OptType

ColName(prefix, k) == prefix \o <<"_">> \o FieldsMap[k].col

\* result[col_name] = np.nan
EmptyColumn(axis) == [ts \in Range(axis) |-> <<>>]

WriteCellAdd(col, ts, val) ==
    [col EXCEPT ![ts] = IF col[ts] = <<>> \/ val = <<>> THEN val ELSE <<col[ts][1] + val[1]>>]

\* result.loc[result['Datetime'] == idx, col_name] = val
WriteCell(col, ts, val) == [col EXCEPT ![ts] = val]

\* for idx, val in values.items(): ... ; a NaT idx equals no Datetime of the frame
RECURSIVE WriteRows(_, _, _)
WriteRows(col, rows, f) ==
    IF rows = <<>> THEN col
    ELSE LET r == Head(rows)
         IN WriteRows(IF r.Datetime # <<>> /\ r.Datetime[1] \in DOMAIN col
                      THEN WriteCell(col, r.Datetime[1], r.Vals[f])
                      ELSE col,
                      Tail(rows), f)

\* for csv_field, col_suffix in fields_map.items(): lines 185-196 of full_analysis.py
RECURSIVE FieldsLoop(_, _, _, _, _)
FieldsLoop(k, cols, cs, prefix, data) ==
    IF k > Len(FieldsMap) THEN [columns |-> cols, cells |-> cs]
    ELSE LET name == ColName(prefix, k)
             cols1 == IF name \in Range(cols) THEN cols ELSE Append(cols, name)
             col0 == IF name \in DOMAIN cs THEN cs[name] ELSE EmptyColumn(unique_times)
             col1 == WriteRows(col0, data, FieldsMap[k].csv)
             cs1 == [c \in DOMAIN cs \cup {name} |-> IF c = name THEN col1 ELSE cs[c]]
         IN FieldsLoop(k + 1, cols1, cs1, prefix, data)

\* one iteration of `for _, contract in df_tickers.iterrows()`: lines 164-198
ProcessContract ==
    /\ pc = "contracts"
    /\ ci <= Len(df_tickers)
    /\ LET contract == df_tickers[ci]
           data == SelectRows(df_symbol, {contract.Ticker})
           out == FieldsLoop(1, columns, cells, ColPrefix(contract), data)
       IN  IF contract.Instrument \in {"FUTURE", "OPTION"}
           THEN columns' = out.columns /\ cells' = out.cells
           ELSE UNCHANGED <<columns, cells>>
    /\ ci' = ci + 1
    /\ UNCHANGED <<parserVars, df_master, sample_cols, mainVars, symbol, pc, df_symbol,
                   df_tickers, unique_times, meta>>

-----------------------------------------------------------------------------
(* create_wide_dataframe: column order *)

RECURSIVE LeadingDigits(_)
LeadingDigits(name) ==
    IF name # <<>> /\ Head(name) \in Digit THEN 1 + LeadingDigits(Tail(name)) ELSE 0

\* re.match(r'(\d+)(CE|PE)_(.+)', col_name)
IsOptionCol(name) ==
    LET nd == LeadingDigits(name)
    IN  /\ nd >= 1
        /\ Len(name) >= nd + 4
        /\ SubSeq(name, nd + 1, nd + 2) \in OptTypes
        /\ name[nd + 3] = "_"

\* the fallback key split into (inf, prefix, field) at the last field suffix
PrefixFieldKey(name) ==
    LET ks == {k \in 1..Len(FieldsMap) :
                 /\ Len(name) > Len(FieldsMap[k].col) + 1
                 /\ SubSeq(name, Len(name) - Len(FieldsMap[k].col), Len(name))
                        = <<"_">> \o FieldsMap[k].col}
        k == CHOOSE x \in ks : \A y \in ks : Len(FieldsMap[y].col) <= Len(FieldsMap[x].col)
    IN  IF ks = {} THEN [inf |-> TRUE, strike |-> 0, second |-> name, third |-> <<>>]
        ELSE [inf |-> TRUE, strike |-> 0,
              second |-> SubSeq(name, 1, Len(name) - Len(FieldsMap[k].col) - 1),
              third |-> FieldsMap[k].col]

get_col_sort_key_by_prefix(name) ==
    LET nd == LeadingDigits(name)
    IN  IF IsOptionCol(name)
        THEN [inf |-> FALSE, strike |-> DigitsToInt(SubSeq(name, 1, nd)),
              second |-> SubSeq(name, nd + 1, nd + 2),
              third |-> SubSeq(name, nd + 4, Len(name))]
        ELSE PrefixFieldKey(name)

\* get_col_sort_key: (strike, opt_type, metric), or (inf, col_name, '')
get_col_sort_key(name) ==
    LET nd == LeadingDigits(name)
    IN  IF IsOptionCol(name)
        THEN [inf |-> FALSE, strike |-> DigitsToInt(SubSeq(name, 1, nd)),
              second |-> SubSeq(name, nd + 1, nd + 2),
              third |-> SubSeq(name, nd + 4, Len(name))]
        ELSE [inf |-> TRUE, strike |-> 0, second |-> name, third |-> <<>>]

\* Python's tuple comparison of two keys
KeyLess(a, b) ==
    LET firstLess == ~a.inf /\ (b.inf \/ a.strike < b.strike)
        firstEq == (a.inf /\ b.inf) \/ (~a.inf /\ ~b.inf /\ a.strike = b.strike)
    IN  \/ firstLess
        \/ firstEq /\ StrLess(a.second, b.second)
        \/ firstEq /\ a.second = b.second /\ StrLess(a.third, b.third)

\* x goes behind every element whose key is not greater than its own
InsertAt(done, x, k) == SubSeq(done, 1, k) \o <<x>> \o SubSeq(done, k + 1, Len(done))

InsertCol(done, x, kx) ==
    InsertAt(done, x, Cardinality({i \in 1..Len(done) : ~KeyLess(kx, done[i].key)}))

RECURSIVE SortKeyed(_, _, _)
SortKeyed(s, i, done) ==
    IF i > Len(s) THEN done
    ELSE SortKeyed(s, i + 1, InsertCol(done, s[i], s[i].key))

\* list.sort(key=get_col_sort_key): every key is computed once, the sort is stable
Keyed(s) == [i \in 1..Len(s) |-> [name |-> s[i], key |-> get_col_sort_key(s[i])]]

Names(keyed) == [i \in 1..Len(keyed) |-> keyed[i].name]

SortCols(s) == Names(SortKeyed(Keyed(s), 1, <<>>))

MetadataCols == <<ColFileDate, ColDate, ColTime>>

RECURSIVE Filter(_, _)
Filter(s, S) ==
    IF s = <<>> THEN <<>>
    ELSE (IF Head(s) \in S THEN <<Head(s)>> ELSE <<>>) \o Filter(Tail(s), S)

\* lines 203-236 of full_analysis.py
Finalize ==
    /\ pc = "contracts"
    /\ ci > Len(df_tickers)
    /\ LET kept == Filter(columns, Range(columns) \ {ColDatetime})
           metadata_cols == Filter(MetadataCols, Range(kept))
           other_cols == Filter(kept, Range(kept) \ Range(metadata_cols))
       IN columns' = metadata_cols \o SortCols(other_cols)
    /\ pc' = "return_table"
    /\ UNCHANGED <<parserVars, df_master, sample_cols, mainVars, symbol, df_symbol,
                   df_tickers, unique_times, cells, meta, ci>>

-----------------------------------------------------------------------------
(* create_wide_dataframe of process_to_feather.py: the reference-template variant *)

\* lines 138-159 of process_to_feather.py
BuildAxisRef ==
    /\ pc = "axis"
    /\ IF FileDate \notin DOMAIN DateTable
       THEN /\ pc' = "raised"
            /\ UNCHANGED <<df_symbol, unique_times, columns, cells, meta, ci>>
       ELSE LET base == <<ColDatetime, ColFileDate, ColDate, ColTime>>
                added == Filter(sample_cols, Range(sample_cols) \ Range(base))
            IN  /\ df_symbol' = WithDatetime(df_symbol)
                /\ unique_times' = Axis(df_symbol')
                /\ columns' = base \o added
                /\ meta' = MetaCells(unique_times')
                /\ cells' = [c \in Range(added) |-> EmptyColumn(unique_times')]
                /\ ci' = 1
                /\ pc' = "contracts"
    /\ UNCHANGED <<parserVars, df_master, sample_cols, mainVars, symbol, df_tickers>>

\* for csv_field, col_suffix in fields_map.items(): lines 195-204 of process_to_feather.py
RECURSIVE FieldsLoopRef(_, _, _, _)
FieldsLoopRef(k, cs, prefix, data) ==
    IF k > Len(FieldsMap) THEN cs
    ELSE LET name == ColName(prefix, k)
         IN FieldsLoopRef(k + 1,
                IF name \in Range(sample_cols) /\ name \in DOMAIN cs
                THEN [cs EXCEPT ![name] = WriteRows(cs[name], data, FieldsMap[k].csv)]
                ELSE cs,
                prefix, data)

\* one iteration of the contract loop: lines 173-206 of process_to_feather.py
ProcessContractRef ==
    /\ pc = "contracts"
    /\ ci <= Len(df_tickers)
    /\ LET contract == df_tickers[ci]
           data == SelectRows(df_symbol, {contract.Ticker})
       IN  IF contract.Instrument \in {"FUTURE", "OPTION"}
           THEN cells' = FieldsLoopRef(1, cells, ColPrefixRef(contract), data)
           ELSE UNCHANGED cells
    /\ ci' = ci + 1
    /\ UNCHANGED <<parserVars, df_master, sample_cols, mainVars, symbol, pc, df_symbol,
                   df_tickers, unique_times, columns, meta>>

FinalColsSynthesizedOnly(ref, cols, cs) ==
    Filter(ref, {c \in Range(cols) :
                    c \notin DOMAIN cs \/ \E ts \in DOMAIN cs[c] : cs[c][ts] # <<>>})

\* final_cols = [col for col in sample_df.columns if col in result.columns]
FinalCols(ref, cols, cs) == Filter(ref, Range(cols))

\* lines 210-236 of process_to_feather.py; the Datetime helper is dropped only if
\* it is in the frame and not in the sample; the dtype casts change no column
FinalizeRef ==
    /\ pc = "contracts"
    /\ ci > Len(df_tickers)
    /\ LET final_cols == FinalCols(sample_cols, columns, cells)
       IN  /\ columns' = IF ColDatetime \in Range(final_cols)
                            /\ ColDatetime \notin Range(sample_cols)
                         THEN Filter(final_cols, Range(final_cols) \ {ColDatetime})
                         ELSE final_cols
           /\ cells' = [c \in DOMAIN cells \cap Range(final_cols) |-> cells[c]]
    /\ pc' = "return_table"
    /\ UNCHANGED <<parserVars, df_master, sample_cols, mainVars, symbol, df_symbol,
                   df_tickers, unique_times, meta, ci>>

-----------------------------------------------------------------------------
(* main: lines 239-308 of full_analysis.py *)

IdleWide ==
    /\ symbol = <<>>
    /\ pc = "idle"
    /\ df_symbol = <<>>
    /\ df_tickers = <<>>
    /\ unique_times = <<>>
    /\ columns = <<>>
    /\ cells = <<>>
    /\ meta = <<>>
    /\ ci = 0

\* the callee's locals are gone once it has returned or raised
ReturnWide ==
    /\ symbol' = <<>>
    /\ pc' = "idle"
    /\ df_symbol' = <<>>
    /\ df_tickers' = <<>>
    /\ unique_times' = <<>>
    /\ columns' = <<>>
    /\ cells' = <<>>
    /\ meta' = <<>>
    /\ ci' = 0

\* lines 253-281: file_date = df_master['Date'].iloc[0]; datetime.strptime(file_date, ...)
\* are outside the loop's try: an empty table or an unparseable first date ends main
MainLoad ==
    /\ mpc = "load"
    /\ IF df_master = <<>> \/ FileDate \notin DOMAIN DateTable
       THEN mpc' = "crashed" /\ UNCHANGED midx
       ELSE mpc' = "loop" /\ midx' = 1
    /\ success_count' = 0
    /\ failed' = <<>>
    /\ UNCHANGED <<parserVars, df_master, sample_cols, symbols, calls, printed, wideVars>>

\* line 283-285: the next symbol of the list, create_wide_dataframe called with it
MainCall ==
    /\ mpc = "loop"
    /\ midx <= Len(symbols)
    /\ mpc' = "call"
    /\ symbol' = symbols[midx]
    /\ pc' = "start"
    /\ calls' = Append(calls, symbols[midx])
    /\ UNCHANGED <<parserVars, df_master, sample_cols, symbols, midx, success_count, failed,
                   printed, df_symbol, df_tickers, unique_times, columns, cells, meta, ci>>

RecordFailedStop(sym, line) ==
    /\ failed' = Append(failed, sym)
    /\ printed' = Append(printed, line)
    /\ midx' = Len(symbols) + 1
    /\ mpc' = "loop"
    /\ UNCHANGED success_count

\* print(line); failed.append(symbol), and on to the next symbol
RecordFailed(sym, line) ==
    /\ failed' = Append(failed, sym)
    /\ printed' = Append(printed, line)
    /\ midx' = midx + 1
    /\ mpc' = "loop"
    /\ UNCHANGED success_count

\* lines 297-301: an exception raised anywhere in the call is caught by `except Exception`
MainExcept ==
    /\ mpc = "call"
    /\ pc \in {"start", "axis", "contracts", "raised"}
    /\ RecordFailed(symbol, "Error")
    /\ ReturnWide
    /\ UNCHANGED <<parserVars, df_master, sample_cols, symbols, calls>>

\* lines 287, 293-295: None, or a table of no rows
MainNoData ==
    /\ mpc = "call"
    /\ pc \in {"return_none", "return_table"}
    /\ pc = "return_table" => Len(unique_times) = 0
    /\ RecordFailed(symbol, "Failed: No data generated")
    /\ ReturnWide
    /\ UNCHANGED <<parserVars, df_master, sample_cols, symbols, calls>>

\* lines 287-292: the table is written, then counted
MainSave ==
    /\ mpc = "call"
    /\ pc = "return_table" /\ Len(unique_times) > 0
    /\ success_count' = success_count + 1
    /\ printed' = Append(printed, "Saved")
    /\ midx' = midx + 1
    /\ mpc' = "loop"
    /\ ReturnWide
    /\ UNCHANGED <<parserVars, df_master, sample_cols, symbols, calls, failed>>

\* line 290 raising (to_feather): caught like any other exception
MainSaveRaise ==
    /\ mpc = "call"
    /\ pc = "return_table" /\ Len(unique_times) > 0
    /\ RecordFailed(symbol, "Error")
    /\ ReturnWide
    /\ UNCHANGED <<parserVars, df_master, sample_cols, symbols, calls>>

\* the loop is exhausted: lines 305-308
MainDone ==
    /\ mpc = "loop"
    /\ midx > Len(symbols)
    /\ mpc' = "done"
    /\ UNCHANGED <<parserVars, df_master, sample_cols, symbols, midx, success_count,
                   failed, calls, printed, wideVars>>

-----------------------------------------------------------------------------
(* Running parse_ticker on synthesized tickers *)

FutTicker(sym, suffix) == sym \o <<"-">> \o suffix

OptTicker(sym, expiry, strike, type) == sym \o expiry \o IntToDigits(strike) \o type

\* the ticker alphabet of the synthesized symbols: letters, a digit, '&', '-'
SymInputChars == {"A", "I", "E", "&", "-", "1"}

SymInputs == UNION {[1..k -> SymInputChars] : k \in 1..MaxSymLen}

Expiries == {<<"2","5","N","O","V","2","5">>, <<"3","0","D","E","C","2","5">>}

Strikes == 8..MaxStrike

ParseTuples ==
    [kind : {"FUT"}, symbol : SymInputs, suffix : RomanSuffixes, nfo : BOOLEAN]
    \cup [kind : {"OPT"}, symbol : SymInputs, expiry : Expiries, strike : Strikes,
          type : OptTypes, nfo : BOOLEAN]

Synthesize(tp) ==
    (IF tp.kind = "FUT" THEN FutTicker(tp.symbol, tp.suffix)
     ELSE OptTicker(tp.symbol, tp.expiry, tp.strike, tp.type))
    \o (IF tp.nfo THEN NFO ELSE <<>>)

IdleClassifier == expiry_str = <<>> /\ reference_date = <<>> /\ bucket_out = <<>>

IdleParser == src = <<>> /\ ticker_str = <<>> /\ parse_out = <<>> /\ IdleClassifier

IdleMain ==
    /\ symbols = <<>>
    /\ mpc = "off"
    /\ midx = 0
    /\ success_count = 0
    /\ failed = <<>>
    /\ calls = <<>>
    /\ printed = <<>>

InitParse ==
    /\ src \in ParseTuples
    /\ ticker_str = Synthesize(src)
    /\ parse_out = <<>>
    /\ IdleClassifier
    /\ df_master = <<>>
    /\ sample_cols = <<>>
    /\ IdleMain
    /\ IdleWide

ParseTicker ==
    /\ ticker_str # <<>>
    /\ parse_out = <<>>
    /\ parse_out' = <<parse_ticker(ticker_str)>>
    /\ UNCHANGED <<src, ticker_str, classifierVars, df_master, sample_cols, mainVars,
                   wideVars>>

NextParse == ParseTicker

SpecParse == InitParse /\ [][NextParse]_vars

\* the calendar, January first
MonthNames ==
    << <<"J","A","N">>, <<"F","E","B">>, <<"M","A","R">>, <<"A","P","R">>,
       <<"M","A","Y">>, <<"J","U","N">>, <<"J","U","L">>, <<"A","U","G">>,
       <<"S","E","P">>, <<"O","C","T">>, <<"N","O","V">>, <<"D","E","C">> >>

TwoDigits(n) == IF n < 10 THEN <<"0">> \o IntToDigits(n) ELSE IntToDigits(n)

\* reference dates dd/mm/2025, one mid-month and one month-end day for every month
RefDates ==
    {d \o <<"/">> \o TwoDigits(m) \o <<"/","2","0","2","5">> :
        d \in {<<"1","5">>, <<"2","8">>}, m \in 1..Len(MonthNames)}

\* expiry tokens ddMMMyy for every month, and tokens that hold no month
ExpiryTokens ==
    {d \o MonthNames[m] \o <<"2","5">> : d \in {<<"2","5">>, <<"3","0">>},
                                         m \in 1..Len(MonthNames)}
    \cup {<<>>, <<"2","5","1","1","2","5">>, <<"2","5","n","o","v","2","5">>,
          <<"N","O">>}

InitBucket ==
    /\ src = <<>>
    /\ ticker_str = <<>>
    /\ parse_out = <<>>
    /\ expiry_str \in ExpiryTokens
    /\ reference_date \in RefDates
    /\ bucket_out = <<>>
    /\ df_master = <<>>
    /\ sample_cols = <<>>
    /\ IdleMain
    /\ IdleWide

DetermineFutureBucket ==
    /\ reference_date # <<>>
    /\ bucket_out = <<>>
    /\ bucket_out' = <<determine_future_bucket(expiry_str, reference_date)>>
    /\ UNCHANGED <<src, ticker_str, parse_out, expiry_str, reference_date, df_master,
                   sample_cols, mainVars, wideVars>>

NextBucket == DetermineFutureBucket

SpecBucket == InitBucket /\ [][NextBucket]_vars

-----------------------------------------------------------------------------
(* Running create_wide_dataframe and main on small master tables *)

BAJAJ == <<"B","A","J","A","J">>
BAJAJ_AUTO == <<"B","A","J","A","J","-","A","U","T","O">>
BAJAJFINSV == <<"B","A","J","A","J","F","I","N","S","V">>
ITC == <<"I","T","C">>
MandM == <<"M","&","M">>

NOV25 == <<"2","5","N","O","V","2","5">>
DEC30 == <<"3","0","D","E","C","2","5">>
CE == <<"C","E">>
PE == <<"P","E">>
RI == <<"I">>
RII == <<"I","I">>
RIII == <<"I","I","I">>

Tables(rows) == UNION {[1..k -> rows] : k \in 0..MaxRows}

RowsOf(tickers, dates, times, bases) ==
    {Row(t, d, tm, b) : t \in tickers, d \in dates, tm \in times, b \in bases}

\* a direct call of create_wide_dataframe(symbol, df_master, sample_df, file_date)
InitCall(rows, targets, refs) ==
    /\ IdleParser
    /\ IdleMain
    /\ df_master \in Tables(rows)
    /\ sample_cols \in refs
    /\ symbol \in targets
    /\ pc = "start"
    /\ df_symbol = <<>>
    /\ df_tickers = <<>>
    /\ unique_times = <<>>
    /\ columns = <<>>
    /\ cells = <<>>
    /\ meta = <<>>
    /\ ci = 0

NextWide == Group \/ BuildAxis \/ ProcessContract \/ Finalize

NextRef == Group \/ BuildAxisRef \/ ProcessContractRef \/ FinalizeRef

\* grouping: underlyings that share a textual prefix, and unresolved tickers
GroupTickers ==
    { FutTicker(BAJAJ_AUTO, RI), FutTicker(BAJAJ, RI) \o NFO, BAJAJ_AUTO,
      OptTicker(BAJAJFINSV, NOV25, 9, CE), OptTicker(BAJAJ, NOV25, 9, PE),
      OptTicker(BAJAJ_AUTO, NOV25, 9, CE) }

InitGroup ==
    InitCall(RowsOf(GroupTickers, {"31/10/2025"}, {"09:15:00"}, {<<10>>}),
             {BAJAJ, BAJAJ_AUTO, BAJAJFINSV}, {<<>>})

SpecGroup == InitGroup /\ [][NextWide]_vars

\* the axis: dates and times that parse, that parse to the same instant, that do not
InitAxis ==
    InitCall(RowsOf({FutTicker(ITC, RI), OptTicker(ITC, NOV25, 9, CE)},
                    {"31/10/2025", "01/11/2025"},
                    {"09:15:00", "9:15:00", "25:61:00"}, {<<10>>}),
             {ITC}, {<<>>})

SpecAxis == InitAxis /\ [][NextWide]_vars

\* the cells: two expiries of one strike, values absent, zero and positive
InitCells ==
    InitCall(RowsOf({OptTicker(ITC, NOV25, 9, CE), OptTicker(ITC, DEC30, 9, CE)},
                    {"31/10/2025"}, {"09:15:00", "09:16:00"}, {<<>>, <<0>>, <<10>>}),
             {ITC}, {<<>>})

SpecCells == InitCells /\ [][NextWide]_vars

\* the columns: three futures buckets, strikes 9 and 10, calls and puts
ColumnTickers ==
    { FutTicker(ITC, RI), FutTicker(ITC, RII), FutTicker(ITC, RIII),
      OptTicker(ITC, NOV25, 9, CE), OptTicker(ITC, NOV25, 10, CE),
      OptTicker(ITC, NOV25, 10, PE) }

InitColumns ==
    InitCall(RowsOf(ColumnTickers, {"31/10/2025"}, {"09:15:00"}, {<<10>>}), {ITC}, {<<>>})

SpecColumns == InitColumns /\ [][NextWide]_vars

\* reference column lists (sample_df.columns)
RefTemplates ==
    { <<ColDate, ColTime, ColName(<<"9","C","E">>, 1), ColName(<<"1","0","P","E">>, 1),
        ColName(FutPrefix \o RI, 1)>>,
      <<ColName(FutPrefix \o RI, 6), ColTime, ColName(<<"9","C","E">>, 4)>>,
      <<ColDatetime, ColName(<<"1","0","P","E">>, 2), ColFileDate>> }

InitRef ==
    InitCall(RowsOf({FutTicker(ITC, RI), OptTicker(ITC, NOV25, 9, CE),
                     OptTicker(ITC, NOV25, 10, CE)},
                    {"31/10/2025"}, {"09:15:00", "09:16:00"}, {<<10>>}),
             {ITC}, RefTemplates)

SpecRef == InitRef /\ [][NextRef]_vars

\* main over a three-symbol list
MainSymbols == <<BAJAJ_AUTO, ITC, MandM>>

MainTickers == {FutTicker(BAJAJ_AUTO, RI), FutTicker(ITC, RI), ITC \o <<"-", "X">>}

InitMain ==
    /\ IdleParser
    /\ IdleWide
    /\ df_master \in Tables(RowsOf(MainTickers, {"31/10/2025"}, {"09:15:00", "25:61:00"},
                                   {<<10>>})
                            \cup RowsOf({FutTicker(ITC, RI)}, {"31-10-2025"}, {"09:15:00"},
                                        {<<10>>}))
    /\ sample_cols = <<>>
    /\ symbols = MainSymbols
    /\ mpc = "load"
    /\ midx = 0
    /\ success_count = 0
    /\ failed = <<>>
    /\ calls = <<>>
    /\ printed = <<>>

NextMain ==
    \/ MainLoad \/ MainCall \/ MainExcept \/ MainNoData \/ MainSave \/ MainSaveRaise
    \/ MainDone
    \/ Group \/ BuildAxis \/ ProcessContract \/ Finalize

SpecMain == InitMain /\ [][NextMain]_vars

Spec == SpecCells

-----------------------------------------------------------------------------
(* Properties of parse_ticker, checked under SpecParse *)

\* the descriptor a synthesized ticker was built from
Expected(tp) ==
    IF tp.kind = "FUT"
    THEN [Symbol |-> tp.symbol, Expiry |-> FutPrefix \o tp.suffix, Strike |-> <<>>,
          OptType |-> <<"F","U","T">>, Instrument |-> "FUTURE"]
    ELSE [Symbol |-> tp.symbol, Expiry |-> tp.expiry, Strike |-> <<tp.strike>>,
          OptType |-> tp.type, Instrument |-> "OPTION"]

\* C1 as stated: every synthesized ticker, whatever characters of the ticker
\* alphabet (uppercase letters, digits, '&', '-') its symbol is made of, with or
\* without '.NFO', parses back to the symbol, instrument, bucket or expiry, strike
\* and type it was built from.
C1_RoundTripAnySymbol ==
    parse_out # <<>> => parse_out[1] = Expected(src)

\* C1, amended: a synthesized ticker whose symbol is made of uppercase letters,
\* '&' and '-' only parses back to exactly the tuple it was built from, with or
\* without '.NFO'; a symbol that holds a digit is never returned as the symbol.
C1_RoundTrip ==
    parse_out # <<>> =>
        IF AllIn(src.symbol, Upper \cup {"&", "-"})
        THEN parse_out[1] = Expected(src)
        ELSE parse_out[1].Symbol # src.symbol

C1_Witness ==
    /\ parse_out # <<>>
    /\ src.kind = "OPT" /\ src.nfo /\ src.strike >= 10
    /\ src.symbol = <<"A", "-", "&">>
    /\ parse_out[1].Instrument = "OPTION"
    /\ parse_out[1].Strike = <<src.strike>>

\* C2: a futures ticker whose symbol is made of uppercase letters and '&' around
\* one or more embedded hyphens parses to FUTURE with the whole hyphenated symbol
\* and the bucket FUT_<suffix>: the split is at the ticker's last hyphen, never at
\* an embedded one.
C2_HyphenBinding ==
    (/\ parse_out # <<>>
     /\ src.kind = "FUT"
     /\ AllIn(src.symbol, Upper \cup {"&", "-"})
     /\ \E i \in 2..(Len(src.symbol) - 1) : src.symbol[i] = "-")
    => LET t == FutTicker(src.symbol, src.suffix)
           lastHyphen == CHOOSE i \in 1..Len(t) :
                            t[i] = "-" /\ \A j \in (i + 1)..Len(t) : t[j] # "-"
       IN  /\ parse_out[1].Instrument = "FUTURE"
           /\ parse_out[1].Symbol = src.symbol
           /\ parse_out[1].Expiry = FutPrefix \o src.suffix
           /\ Len(parse_out[1].Symbol) = lastHyphen - 1

C2_Witness ==
    /\ parse_out # <<>>
    /\ src.kind = "FUT" /\ src.symbol = <<"A", "-", "I">> /\ src.suffix = <<"I", "I">>
    /\ parse_out[1].Symbol = <<"A", "-", "I">>
    /\ parse_out[1].Expiry = <<"F","U","T","_","I","I">>

-----------------------------------------------------------------------------
(* Properties of the grouping, checked under SpecGroup *)

KeptTickers == {df_tickers[i].Ticker : i \in 1..Len(df_tickers)}

\* C3: every contract create_wide_dataframe keeps has a ticker that starts with the
\* target symbol followed at once by a digit or a hyphen and parses to exactly the
\* target symbol as FUTURE or OPTION; only rows of kept contracts remain, and the
\* axis and the data columns of the table come from those rows alone.
C3_PrefixCollisionRejected ==
    /\ \A i \in 1..Len(df_tickers) :
          LET t == df_tickers[i].Ticker
              n == Len(symbol)
          IN  /\ Len(t) > n
              /\ SubSeq(t, 1, n) = symbol
              /\ t[n + 1] \in Digit \cup {"-"}
              /\ parse_ticker(t).Symbol = symbol
              /\ parse_ticker(t).Instrument \in {"FUTURE", "OPTION"}
              /\ df_tickers[i].Symbol = symbol
    /\ \A i \in 1..Len(df_symbol) : df_symbol[i].Ticker \in KeptTickers
    /\ pc = "return_table" =>
          /\ \A c \in DOMAIN cells :
                \E i \in 1..Len(df_tickers), k \in 1..Len(FieldsMap) :
                    c = ColName(ColPrefix(df_tickers[i]), k)
          /\ \A ts \in Range(unique_times) :
                \E i \in 1..Len(df_master) :
                    /\ df_master[i].Ticker \in KeptTickers
                    /\ ParseDatetime(df_master[i].Date, df_master[i].Time) = <<ts>>

C3_Witness ==
    /\ pc = "return_table"
    /\ symbol = BAJAJ
    /\ KeptTickers = {OptTicker(BAJAJ, NOV25, 9, PE)}
    /\ \E i \in 1..Len(df_master) : df_master[i].Ticker = FutTicker(BAJAJ_AUTO, RI)
    /\ \E i \in 1..Len(df_master) : df_master[i].Ticker = BAJAJ_AUTO

-----------------------------------------------------------------------------
(* Properties of the assembled cells, checked under SpecCells *)

Populated(col) == {ts \in DOMAIN col : col[ts] # <<>>}

RowsOfContract(t) == {j \in 1..Len(df_symbol) : df_symbol[j].Ticker = t}

OwnTimes(t) ==
    {df_symbol[j].Datetime[1] : j \in {x \in RowsOfContract(t) : df_symbol[x].Datetime # <<>>}}

\* C4 as stated: in the finished table, a contract whose rows all hold present
\* values and lie at M < N of the N axis timestamps has, in each of its six field
\* columns, populated cells at exactly its own M timestamps and absent cells
\* (never zero) at the other N-M.
C4_SparseCells ==
    pc = "return_table" =>
        \A i \in 1..Len(df_tickers) :
            LET t == df_tickers[i].Ticker
            IN  (/\ \A j \in RowsOfContract(t), f \in CsvFields : df_symbol[j].Vals[f] # <<>>
                 /\ Cardinality(OwnTimes(t)) < Len(unique_times))
                => \A k \in 1..Len(FieldsMap) :
                      Populated(cells[ColName(ColPrefix(df_tickers[i]), k)]) = OwnTimes(t)

\* the rows of contract t at axis timestamp ts, as positions of the merged frame
RowsAt(t, ts) == {j \in RowsOfContract(t) : df_symbol[j].Datetime = <<ts>>}

Max(S) == CHOOSE x \in S : \A y \in S : y <= x

Duplicated(t) == {ts \in Range(unique_times) : Cardinality(RowsAt(t, ts)) >= 2}

\* C11 as stated: in the finished table, for a contract with two or more rows at
\* one timestamp, the cell (that timestamp, prefix_field) holds for each of the six
\* fields the value of the contract's last such row in input order, and the
\* contract's cells at its other timestamps hold what its single row there gave.
C11_LastWriteWins ==
    pc = "return_table" =>
        \A i \in 1..Len(df_tickers) :
            LET t == df_tickers[i].Ticker
            IN  \A ts \in Duplicated(t), k \in 1..Len(FieldsMap) :
                   LET col == cells[ColName(ColPrefix(df_tickers[i]), k)]
                       f == FieldsMap[k].csv
                   IN  /\ col[ts] = df_symbol[Max(RowsAt(t, ts))].Vals[f]
                       /\ \A ts2 \in OwnTimes(t) \ Duplicated(t) :
                              col[ts2] = df_symbol[Max(RowsAt(t, ts2))].Vals[f]

-----------------------------------------------------------------------------
(* Properties of the column names and their order, checked under SpecColumns *)

OptionRows == {i \in 1..Len(df_tickers) : df_tickers[i].Instrument = "OPTION"}

ParsedStrike(i) == parse_ticker(df_tickers[i].Ticker).Strike[1]

\* C5 as stated: the column prefix of every OPTION contract is the strike's integer
\* digits followed by the option type, whether the strike is carried as an int or
\* as an integer-valued float; no column name holds a decimal point.
C5_StrikeRendering ==
    /\ \A i \in OptionRows :
          ColPrefix(df_tickers[i]) = IntToDigits(ParsedStrike(i)) \o df_tickers[i].OptType
    /\ \A c \in Range(columns) : "." \notin Range(c)

\* the contract and field a data column was synthesized from
Origin(name) ==
    CHOOSE o \in (1..Len(df_tickers)) \X (1..Len(FieldsMap)) :
        name = ColName(ColPrefix(df_tickers[o[1]]), o[2])

OptionKeyLeq(a, b) ==
    LET sa == ParsedStrike(a[1])
        sb == ParsedStrike(b[1])
        ta == df_tickers[a[1]].OptType
        tb == df_tickers[b[1]].OptType
    IN  \/ sa < sb
        \/ sa = sb /\ ta = CE /\ tb = PE
        \/ sa = sb /\ ta = tb /\ a[2] <= b[2]

\* C6 as stated: the finished table starts with FileDate, Date, Time; then come the
\* columns of the option contracts, by numeric strike ascending, CE before PE, field
\* name ascending; every futures column comes after all option columns.
C6_ColumnOrder ==
    pc = "return_table" =>
        /\ SubSeq(columns, 1, 3) = <<ColFileDate, ColDate, ColTime>>
        /\ \A a, b \in 4..Len(columns) :
              a < b =>
                LET oa == Origin(columns[a])
                    ob == Origin(columns[b])
                IN  /\ ob[1] \in OptionRows => oa[1] \in OptionRows
                    /\ (oa[1] \in OptionRows /\ ob[1] \in OptionRows) => OptionKeyLeq(oa, ob)

\* C10 as stated: the columns that are not option-shaped are ordered by the pair
\* (prefix string ascending, field name ascending): FUT_I_* before FUT_II_* before
\* FUT_III_*.
C10_PrefixThenField ==
    pc = "return_table" =>
        \A a, b \in 4..Len(columns) :
            (a < b /\ ~IsOptionCol(columns[a]) /\ ~IsOptionCol(columns[b])) =>
                LET pa == ColPrefix(df_tickers[Origin(columns[a])[1]])
                    pb == ColPrefix(df_tickers[Origin(columns[b])[1]])
                IN  \/ StrLess(pa, pb)
                    \/ pa = pb /\ Origin(columns[a])[2] <= Origin(columns[b])[2]

Position(name) == CHOOSE i \in 1..Len(columns) : columns[i] = name

FutCol(suffix, k) == ColName(FutPrefix \o suffix, k)

Before(x, y) ==
    (x \in Range(columns) /\ y \in Range(columns)) => Position(x) < Position(y)

\* C10, amended: the columns that are not option-shaped are ordered by their whole
\* column name ascending, code point by code point: every FUT_III_* column precedes
\* every FUT_II_* column, which precedes every FUT_I_* column ('I' sorts before
\* '_'), and within one bucket the fields are in ascending field-name order.
C10_WholeNameOrder ==
    pc = "return_table" =>
        /\ \A a, b \in 4..Len(columns) :
              (a < b /\ ~IsOptionCol(columns[a]) /\ ~IsOptionCol(columns[b])) =>
                  StrLess(columns[a], columns[b])
        /\ \A k, l \in 1..Len(FieldsMap) :
              /\ Before(FutCol(RIII, k), FutCol(RII, l))
              /\ Before(FutCol(RII, k), FutCol(RI, l))
              /\ Before(FutCol(RIII, k), FutCol(RI, l))
              /\ \A sfx \in RomanSuffixes : k < l => Before(FutCol(sfx, k), FutCol(sfx, l))

C10_Witness ==
    /\ pc = "return_table"
    /\ {FutCol(RI, 1), FutCol(RII, 6), FutCol(RIII, 4)} \subseteq Range(columns)
    /\ Position(FutCol(RIII, 6)) < Position(FutCol(RII, 1))
    /\ Position(FutCol(RII, 6)) < Position(FutCol(RI, 1))

-----------------------------------------------------------------------------
(* Properties of the timestamp axis, checked under SpecAxis *)

Resolved(t) == Mask(t, symbol) /\ KeepParsed(parse_ticker(t), symbol)

ParsedTimes ==
    {ParseDatetime(r.Date, r.Time)[1] :
        r \in {x \in Range(df_master) :
                  Resolved(x.Ticker) /\ ParseDatetime(x.Date, x.Time) # <<>>}}

\* C7: once built, the axis is strictly ascending, so duplicate-free, and holds
\* exactly the instants of the rows of the target's resolved contracts whose
\* date and time parse; a row that does not parse adds no entry, writes no cell
\* and does not abort the call.
C7_TimestampAxis ==
    /\ pc # "raised"
    /\ pc \in {"contracts", "return_table"} =>
          /\ \A i \in 1..(Len(unique_times) - 1) : unique_times[i] < unique_times[i + 1]
          /\ Range(unique_times) = ParsedTimes
          /\ DOMAIN meta = ParsedTimes
          /\ \A c \in DOMAIN cells : DOMAIN cells[c] = ParsedTimes
    /\ pc = "return_table" =>
          \A c \in DOMAIN cells : \A ts \in Populated(cells[c]) :
              \E i \in 1..Len(df_symbol), k \in 1..Len(FieldsMap) :
                  /\ df_symbol[i].Datetime = <<ts>>
                  /\ c = ColName(ColPrefix(CHOOSE d \in Range(df_tickers) :
                                              d.Ticker = df_symbol[i].Ticker), k)

C7_Witness ==
    /\ pc = "return_table"
    /\ Len(df_master) = 3
    /\ \E i \in 1..3 : ParseDatetime(df_master[i].Date, df_master[i].Time) = <<>>
    /\ df_master[1].Ticker # df_master[2].Ticker
    /\ ParseDatetime(df_master[1].Date, df_master[1].Time) # <<>>
    /\ ParseDatetime(df_master[2].Date, df_master[2].Time) # <<>>
    /\ ParseDatetime(df_master[1].Date, df_master[1].Time)[1]
          > ParseDatetime(df_master[2].Date, df_master[2].Time)[1]
    /\ Len(unique_times) = 2

-----------------------------------------------------------------------------
(* Properties of the reference-template variant, checked under SpecRef *)

SynthesizedRef ==
    {ColName(ColPrefixRef(df_tickers[i]), k) : i \in 1..Len(df_tickers), k \in 1..Len(FieldsMap)}
    \cup {ColDatetime, ColFileDate, ColDate, ColTime}

\* C8 as stated: the output's columns are exactly the reference columns that were
\* also synthesized in this run, in the reference's order.
C8_ReferenceAndSynthesized ==
    pc = "return_table" => columns = Filter(sample_cols, SynthesizedRef)

\* C8, amended: the output's columns are exactly the reference's columns, all of
\* them and in the reference's order; a reference column for which no contract of
\* this run produced a prefix is in the output with every cell absent, and a
\* synthesized column that is not in the reference is not in the output.
C8_ReferenceColumns ==
    pc = "return_table" =>
        /\ columns = sample_cols
        /\ \A c \in DOMAIN cells :
              /\ c \in Range(sample_cols)
              /\ c \notin SynthesizedRef => Populated(cells[c]) = {}

C8_Witness ==
    /\ pc = "return_table"
    /\ \E c \in Range(columns) : c \notin SynthesizedRef
    /\ \E c \in DOMAIN cells : Populated(cells[c]) # {}
    /\ \E i \in 1..Len(df_tickers), k \in 1..Len(FieldsMap) :
          ColName(ColPrefixRef(df_tickers[i]), k) \notin Range(columns)

-----------------------------------------------------------------------------
(* Properties of main's loop, checked under SpecMain *)

RECURSIVE CountOf(_, _)
CountOf(s, x) ==
    IF s = <<>> THEN 0 ELSE (IF Head(s) = x THEN 1 ELSE 0) + CountOf(Tail(s), x)

\* the symbols whose outcome line is not "Saved", in call order
RECURSIVE NotSaved(_, _)
NotSaved(syms, lines) ==
    IF lines = <<>> THEN <<>>
    ELSE (IF Head(lines) = "Saved" THEN <<>> ELSE <<Head(syms)>>)
         \o NotSaved(Tail(syms), Tail(lines))

\* no row of the table is a resolved contract of sym
ZeroResolved(sym) ==
    \A i \in 1..Len(df_master) :
        ~(Mask(df_master[i].Ticker, sym) /\ KeepParsed(parse_ticker(df_master[i].Ticker), sym))

\* C9: main's loop calls create_wide_dataframe once per symbol, in list order;
\* every finished call is recorded exactly once, counted in success_count or
\* appended to failed; an exception ends that symbol's pass only; a symbol with no
\* resolved contract goes to failed and is never counted; when the loop is done
\* success_count + len(failed) is the number of symbols.
C9_FaultIsolation ==
    mpc \in {"loop", "call", "done"} =>
        /\ calls = SubSeq(symbols, 1, Len(calls))
        /\ Len(calls) = (IF mpc = "call" THEN midx ELSE midx - 1)
        /\ Len(printed) = midx - 1
        /\ success_count = CountOf(printed, "Saved")
        /\ failed = NotSaved(symbols, printed)
        /\ success_count + Len(failed) = midx - 1
        /\ \A i \in 1..Len(printed) : ZeroResolved(symbols[i]) => printed[i] # "Saved"
        /\ (mpc = "call" /\ pc = "return_none") => ZeroResolved(symbol)
        /\ mpc = "done" =>
              /\ calls = symbols
              /\ success_count + Len(failed) = Len(symbols)

C9_Witness ==
    /\ mpc = "done"
    /\ printed = <<"Error", "Saved", "Failed: No data generated">>
    /\ success_count = 1
    /\ failed = <<BAJAJ_AUTO, MandM>>

-----------------------------------------------------------------------------
(* Properties of the futures bucket classifier, checked under SpecBucket *)

\* the month of a reference date dd/mm/yyyy, 1..12
RefMonth(d) == DigitsToInt(SubSeq(d, 4, 5))

\* the calendar number of a 3-letter month, 0 when it is not a month's name
MonthNumber(m) ==
    IF \E i \in 1..Len(MonthNames) : MonthNames[i] = m
    THEN CHOOSE i \in 1..Len(MonthNames) : MonthNames[i] = m
    ELSE 0

\* how many months after the reference month, counted round the calendar
MonthsAfter(m, ref) == (MonthNumber(m) - RefMonth(ref)) % Len(MonthNames)

\* C12 as stated: for every reference date and expiry token the bucket is FUT_I
\* when the token's month is the month after the reference month, FUT_II for the
\* month after that, FUT_III for the next one, counted cyclically; a token with
\* no 3-letter month gives FUT_I.
C12_ReferenceRelativeBucket ==
    bucket_out # <<>> =>
        LET mm == MonthMatch(expiry_str)
        IN  IF mm = <<>> THEN bucket_out[1] = FutPrefix \o RI
            ELSE MonthNumber(mm[1]) # 0 =>
                   /\ MonthsAfter(mm[1], reference_date) = 1 => bucket_out[1] = FutPrefix \o RI
                   /\ MonthsAfter(mm[1], reference_date) = 2 => bucket_out[1] = FutPrefix \o RII
                   /\ MonthsAfter(mm[1], reference_date) = 3 => bucket_out[1] = FutPrefix \o RIII

====
